---- MODULE Spec2Model ----
(***************************************************************************)
(* generate_icon.py: builds VeloxClip/Resources/AppIcon.icns from one      *)
(* image by running sips once per icon size into VeloxClip.iconset and     *)
(* then iconutil on that directory.  The model follows the script          *)
(* statement by statement; the file system is the output directory, the    *)
(* output file and the iconset directory with its files.                   *)
(***************************************************************************)
EXTENDS Integers, Sequences, FiniteSets, TLC

\* How many times in a row the tool is invoked (specification SpecTwice).
MaxRuns == 2
\* How many foreign files an iconset left over from before the run may hold.
MaxStale == 1

\* icon_sizes (lines 30-41): (pixel dimension, file name), in table order.
icon_sizes ==
    << <<16,   "icon_16x16.png">>,
       <<32,   "icon_16x16@2x.png">>,
       <<32,   "icon_32x32.png">>,
       <<64,   "icon_32x32@2x.png">>,
       <<128,  "icon_128x128.png">>,
       <<256,  "icon_128x128@2x.png">>,
       <<256,  "icon_256x256.png">>,
       <<512,  "icon_256x256@2x.png">>,
       <<512,  "icon_512x512.png">>,
       <<1024, "icon_512x512@2x.png">> >>

\* The script's own name, sys.argv[0].
script == "generate_icon.py"

\* Image paths that exist on disk; any other path does not exist.
ExistingImages == {"a.png", "b.png"}

\* The command lines the tool is started with: no argument, a path that does
\* not exist, a path that exists.
CommandLines ==
    {<<script>>, <<script, "missing.png">>} \cup {<<script, p>> : p \in ExistingImages}

\* A file of the iconset directory: <<name, what it was rendered from, dimension>>.
\* Files from before the run carry "stale"; a file a failed sips left half
\* written carries "partial".
StaleNames ==
    {icon_sizes[1][2]} \cup {"stale" \o ToString(n) \o ".png" : n \in 1..MaxStale}

StaleFile(name) == <<name, "stale", 0>>

\* Content of the .icns file before the first run, if there is one.
OldIcns == [src |-> "old", files |-> {}]

\* Content of a .icns file a failed iconutil left behind.
PartialIcns == [src |-> "partial", files |-> {}]

VARIABLES
    argv,          \* sys.argv
    pc,            \* position of the run
    outDirExists,  \* VeloxClip/Resources exists
    icns,          \* <<>> when AppIcon.icns is absent, else <<content>>
    wdExists,      \* VeloxClip.iconset exists
    wdFiles,       \* the files of VeloxClip.iconset
    i,             \* index into icon_sizes of the for loop (1-based)
    result,        \* returncode of the last subprocess.run
    ret,           \* what generate_icon returned: "none", "True", "False"
    exitCode,      \* process exit code, -1 while the process runs
    calls,         \* the external utilities invoked in this run, in order
    start,         \* the file system when this run began
    run,           \* number of this run
    prev           \* the previous run: its argv, its final pc, the file system it left

vars == <<argv, pc, outDirExists, icns, wdExists, wdFiles, i, result, ret,
          exitCode, calls, start, run, prev>>

\* The file system as one value.
FS == [outDir |-> outDirExists, icns |-> icns, wd |-> wdExists, files |-> wdFiles]

\* input_image = sys.argv[1] (line 85)
input_image == argv[2]

\* os.path.exists(input_image) (line 88)
InputExists == input_image \in ExistingImages

\* shutil.rmtree(iconset_name): the directory and everything in it is gone.
rmtree ==
    /\ wdExists' = FALSE
    /\ wdFiles' = {}

\* Writing a file into a directory replaces a file of the same name.
WriteFile(files, f) == {g \in files : g[1] # f[1]} \cup {f}

\* The arguments sips gets for the k-th entry (lines 46-49):
\* ["sips", "-z", str(size), str(size), input_image, "--out", output_file]
SipsArgsNominal(k) ==
    [size |-> icon_sizes[1][1], inp |-> input_image, out |-> icon_sizes[k][2]]

SipsArgs(k) ==
    [size |-> icon_sizes[k][1], inp |-> input_image, out |-> icon_sizes[k][2]]

\* What a successful sips writes: the input scaled to size x size.
Rendition(a) == <<a.out, a.inp, a.size>>

\* What a successful iconutil -c icns writes: the compiled directory.
Iconutil(files) == [src |-> "iconutil", files |-> files]

Init ==
    /\ argv \in CommandLines
    /\ pc = "Start"
    /\ outDirExists \in BOOLEAN
    /\ icns \in {<<>>, <<OldIcns>>}
    /\ (icns # <<>> => outDirExists)
    /\ wdExists \in BOOLEAN
    /\ wdFiles \in {{StaleFile(n) : n \in S} : S \in SUBSET StaleNames}
    /\ (~wdExists => wdFiles = {})
    /\ i = 1
    /\ result = 0
    /\ ret = "none"
    /\ exitCode = -1
    /\ calls = <<>>
    /\ start = FS
    /\ run = 1
    /\ prev = [argv |-> <<script>>, pc |-> "Start", fs |-> FS]

\* Lines 80-85: no argument prints the usage and exits 1.
CheckArgs ==
    /\ pc = "Start"
    /\ IF Len(argv) < 2
       THEN /\ pc' = "UsageError"
            /\ exitCode' = 1
       ELSE /\ pc' = "ValidatingInput"
            /\ exitCode' = exitCode
    /\ UNCHANGED <<argv, outDirExists, icns, wdExists, wdFiles, i, result, ret,
                   calls, start, run, prev>>

\* Lines 88-92 with the existence check dropped.
ValidateInputUnchecked ==
    /\ pc = "ValidatingInput"
    /\ pc' = "MkOutputDir"
    /\ UNCHANGED <<argv, outDirExists, icns, wdExists, wdFiles, i, result, ret,
                   exitCode, calls, start, run, prev>>

\* Lines 88-92 asking again instead of exiting.
ValidateInputAgain ==
    /\ pc = "ValidatingInput"
    /\ IF ~InputExists
       THEN pc' = "Start"
       ELSE pc' = "MkOutputDir"
    /\ UNCHANGED <<argv, outDirExists, icns, wdExists, wdFiles, i, result, ret,
                   exitCode, calls, start, run, prev>>

\* Lines 88-92: a missing input exits 1, otherwise generate_icon is called.
ValidateInput ==
    /\ pc = "ValidatingInput"
    /\ IF ~InputExists
       THEN /\ pc' = "InputMissing"
            /\ exitCode' = 1
       ELSE /\ pc' = "MkOutputDir"
            /\ exitCode' = exitCode
    /\ UNCHANGED <<argv, outDirExists, icns, wdExists, wdFiles, i, result, ret,
                   calls, start, run, prev>>

\* Line 19 left out.
MkOutputDirSkipped ==
    /\ pc = "MkOutputDir"
    /\ pc' = "RecreateIconset"
    /\ UNCHANGED <<argv, outDirExists, icns, wdExists, wdFiles, i, result, ret,
                   exitCode, calls, start, run, prev>>

\* Line 19: output_path.parent.mkdir(parents=True, exist_ok=True)
MkOutputDir ==
    /\ pc = "MkOutputDir"
    /\ outDirExists' = TRUE
    /\ pc' = "RecreateIconset"
    /\ UNCHANGED <<argv, icns, wdExists, wdFiles, i, result, ret, exitCode,
                   calls, start, run, prev>>

\* Lines 21-24 keeping an existing directory (makedirs with exist_ok).
RecreateIconsetKeepOld ==
    /\ pc = "RecreateIconset"
    /\ wdExists' = TRUE
    /\ wdFiles' = wdFiles
    /\ i' = 1
    /\ pc' = "Rendering"
    /\ UNCHANGED <<argv, outDirExists, icns, result, ret, exitCode, calls,
                   start, run, prev>>

\* Lines 21-24 without the makedirs.
RecreateIconsetNoMakedirs ==
    /\ pc = "RecreateIconset"
    /\ rmtree
    /\ i' = 1
    /\ pc' = "Rendering"
    /\ UNCHANGED <<argv, outDirExists, icns, result, ret, exitCode, calls,
                   start, run, prev>>

\* Lines 21-24: remove the old iconset if it exists, then os.makedirs it.
RecreateIconset ==
    /\ pc = "RecreateIconset"
    /\ wdExists' = TRUE
    /\ wdFiles' = {}
    /\ i' = 1
    /\ pc' = "Rendering"
    /\ UNCHANGED <<argv, outDirExists, icns, result, ret, exitCode, calls,
                   start, run, prev>>

\* Lines 46-52: subprocess.run(["sips", ...]) for entry i.  sips exits 0
\* having written the rendition, or exits non-zero, with or without a
\* half-written file.  It cannot write into a directory that does not exist.
RunSips ==
    /\ pc = "Rendering"
    /\ \E rc \in {0, 1}, partial \in BOOLEAN :
          /\ rc = 0 => (wdExists /\ ~partial)
          /\ partial => wdExists
          /\ result' = rc
          /\ wdFiles' =
                IF rc = 0 THEN WriteFile(wdFiles, Rendition(SipsArgs(i)))
                ELSE IF partial
                     THEN WriteFile(wdFiles, <<SipsArgs(i).out, "partial", 0>>)
                     ELSE wdFiles
          /\ calls' = Append(calls, [util |-> "sips", k |-> i,
                                     size |-> SipsArgs(i).size,
                                     out |-> SipsArgs(i).out,
                                     rc |-> rc, wd |-> wdExists,
                                     files |-> wdFiles])
    /\ pc' = "RenderCheck"
    /\ UNCHANGED <<argv, outDirExists, icns, wdExists, i, ret, exitCode,
                   start, run, prev>>

\* Lines 53-56 without the rmtree.
CheckRenditionNoCleanup ==
    /\ pc = "RenderCheck"
    /\ IF result # 0
       THEN /\ ret' = "False"
            /\ pc' = "RenderFailed"
            /\ UNCHANGED <<i, wdExists, wdFiles>>
       ELSE /\ i' = i + 1
            /\ pc' = IF i = Len(icon_sizes) THEN "Compiling" ELSE "Rendering"
            /\ UNCHANGED <<ret, wdExists, wdFiles>>
    /\ UNCHANGED <<argv, outDirExists, icns, result, exitCode, calls, start,
                   run, prev>>

\* Lines 53-56 ignoring the return code.
CheckRenditionIgnore ==
    /\ pc = "RenderCheck"
    /\ i' = i + 1
    /\ pc' = IF i = Len(icon_sizes) THEN "Compiling" ELSE "Rendering"
    /\ UNCHANGED <<argv, outDirExists, icns, wdExists, wdFiles, result, ret,
                   exitCode, calls, start, run, prev>>

\* Lines 53-56 trying the same size again after a failure.
CheckRenditionRetry ==
    /\ pc = "RenderCheck"
    /\ IF result # 0
       THEN /\ pc' = "Rendering"
            /\ UNCHANGED <<i, ret, wdExists, wdFiles>>
       ELSE /\ i' = i + 1
            /\ pc' = IF i = Len(icon_sizes) THEN "Compiling" ELSE "Rendering"
            /\ UNCHANGED <<ret, wdExists, wdFiles>>
    /\ UNCHANGED <<argv, outDirExists, icns, result, exitCode, calls, start,
                   run, prev>>

\* Lines 53-56 and the loop's advance: a non-zero return code removes the
\* iconset and returns False; otherwise the loop goes on to the next entry,
\* and past the last entry to iconutil.
CheckRendition ==
    /\ pc = "RenderCheck"
    /\ IF result # 0
       THEN /\ rmtree
            /\ ret' = "False"
            /\ pc' = "RenderFailed"
            /\ i' = i
       ELSE /\ i' = i + 1
            /\ pc' = IF i = Len(icon_sizes) THEN "Compiling" ELSE "Rendering"
            /\ UNCHANGED <<ret, wdExists, wdFiles>>
    /\ UNCHANGED <<argv, outDirExists, icns, result, exitCode, calls, start,
                   run, prev>>

\* Lines 62-66: subprocess.run(["iconutil", "-c", "icns", iconset_name, "-o",
\* str(output_path)]).  iconutil exits 0 having written the .icns file, or
\* exits non-zero, leaving the output untouched or half written.
RunIconutil ==
    /\ pc = "Compiling"
    /\ \E rc \in {0, 1}, partial \in BOOLEAN :
          /\ rc = 0 => (wdExists /\ outDirExists /\ ~partial)
          /\ partial => outDirExists
          /\ result' = rc
          /\ icns' = IF rc = 0 THEN <<Iconutil(wdFiles)>>
                     ELSE IF partial THEN <<PartialIcns>> ELSE icns
          /\ calls' = Append(calls, [util |-> "iconutil", k |-> 0,
                                     size |-> 0, out |-> "AppIcon.icns",
                                     rc |-> rc, wd |-> wdExists,
                                     files |-> wdFiles])
    /\ pc' = "CleanUp"
    /\ UNCHANGED <<argv, outDirExists, wdExists, wdFiles, i, ret, exitCode,
                   start, run, prev>>

\* Lines 68-77 removing the iconset only when iconutil succeeded.
CleanUpOnSuccessOnly ==
    /\ pc = "CleanUp"
    /\ IF result # 0
       THEN /\ ret' = "False"
            /\ pc' = "CompileFailed"
            /\ UNCHANGED <<wdExists, wdFiles>>
       ELSE /\ rmtree
            /\ ret' = "True"
            /\ pc' = "CompileSucceeded"
    /\ UNCHANGED <<argv, outDirExists, icns, i, result, exitCode, calls, start,
                   run, prev>>

\* Lines 68-77: remove the iconset, then return False on a non-zero return
\* code of iconutil and True otherwise.
CleanUp ==
    /\ pc = "CleanUp"
    /\ rmtree
    /\ IF result # 0
       THEN /\ ret' = "False"
            /\ pc' = "CompileFailed"
       ELSE /\ ret' = "True"
            /\ pc' = "CompileSucceeded"
    /\ UNCHANGED <<argv, outDirExists, icns, i, result, exitCode, calls, start,
                   run, prev>>

\* Lines 92-96 exiting 0 whatever generate_icon returned.
MainExitAlwaysZero ==
    /\ ret # "none"
    /\ exitCode = -1
    /\ exitCode' = 0
    /\ UNCHANGED <<argv, pc, outDirExists, icns, wdExists, wdFiles, i, result,
                   ret, calls, start, run, prev>>

\* Lines 92-96: sys.exit(0) if generate_icon returned True, else sys.exit(1).
MainExit ==
    /\ ret # "none"
    /\ exitCode = -1
    /\ exitCode' = IF ret = "True" THEN 0 ELSE 1
    /\ UNCHANGED <<argv, pc, outDirExists, icns, wdExists, wdFiles, i, result,
                   ret, calls, start, run, prev>>

\* One run of the tool.
Next ==
    \/ CheckArgs
    \/ ValidateInput
    \/ MkOutputDir
    \/ RecreateIconset
    \/ RunSips
    \/ CheckRendition
    \/ RunIconutil
    \/ CleanUp
    \/ MainExit

\* The tool is started again once the process has exited; the file system
\* is what the run before left.
Rerun ==
    /\ exitCode # -1
    /\ run < MaxRuns
    /\ run' = run + 1
    /\ prev' = [argv |-> argv, pc |-> pc, fs |-> FS]
    /\ argv' \in CommandLines
    /\ pc' = "Start"
    /\ i' = 1
    /\ result' = 0
    /\ ret' = "none"
    /\ exitCode' = -1
    /\ calls' = <<>>
    /\ start' = FS
    /\ UNCHANGED <<outDirExists, icns, wdExists, wdFiles>>

NextTwice == Next \/ Rerun

Spec == Init /\ [][Next]_vars

\* The script is sequential and each subprocess.run blocks until the utility
\* exits: as long as a statement remains, the run takes it.
FairSpec == Init /\ [][Next]_vars /\ WF_vars(Next)

SpecTwice == Init /\ [][NextTwice]_vars

-----------------------------------------------------------------------------
(* Properties *)

\* The states in which generate_icon has returned.
Returned == pc \in {"RenderFailed", "CompileFailed", "CompileSucceeded"}

\* The states in which the process has stopped without calling generate_icon.
Refused == pc \in {"UsageError", "InputMissing"}

\* The required renditions as the specification lists them.
Dims == <<16, 32, 32, 64, 128, 256, 256, 512, 512, 1024>>

Names == <<"icon_16x16.png", "icon_16x16@2x.png", "icon_32x32.png",
           "icon_32x32@2x.png", "icon_128x128.png", "icon_128x128@2x.png",
           "icon_256x256.png", "icon_256x256@2x.png", "icon_512x512.png",
           "icon_512x512@2x.png">>

IsSips(j) == calls[j].util = "sips"

IsIconutil(j) == calls[j].util = "iconutil"

\* The k-th invocation of this run was sips and returned non-zero.
SipsFailedAt(k) == k <= Len(calls) /\ IsSips(k) /\ calls[k].rc # 0

\* All ten sips invocations were made and returned zero.
AllTenZero ==
    /\ Len(calls) >= 10
    /\ \A k \in 1..10 : IsSips(k) /\ calls[k].rc = 0

\* iconutil was invoked and returned zero.
CompileZero ==
    /\ Len(calls) = 11
    /\ IsIconutil(11)
    /\ calls[11].rc = 0

\* C1: whenever generate_icon has returned, on each of its three exit paths
\* (a rendition failed, the compile failed, the compile succeeded), the
\* directory VeloxClip.iconset does not exist.
C1_IconsetGoneOnReturn == Returned => (~wdExists /\ wdFiles = {})

\* C1 witness: the compile failed in a run that found an old iconset, and
\* the iconset is gone.
C1_Witness == pc = "CompileFailed" /\ start.wd /\ ~wdExists

\* C2: if sips returns non-zero on the k-th entry, no later sips and no
\* iconutil is invoked, the .icns file is as it was before the run, and
\* generate_icon returns False.
C2_FailFast ==
    \A k \in 1..10 :
        SipsFailedAt(k) =>
            /\ Len(calls) = k
            /\ \A j \in 1..Len(calls) : ~IsIconutil(j)
            /\ icns = start.icns
            /\ pc \in {"RenderCheck", "RenderFailed"}
            /\ pc = "RenderFailed" => ret = "False"
            /\ exitCode # 0

\* C2 witness: the third rendition failed over an existing .icns file and
\* generate_icon has returned False.
C2_Witness ==
    /\ SipsFailedAt(3)
    /\ pc = "RenderFailed"
    /\ ret = "False"
    /\ start.icns # <<>>
    /\ icns = start.icns

\* C3: started with an input path that does not exist, the run changes
\* nothing on the file system, invokes no utility, and exits with code 1.
C3_MissingInputNoMutation ==
    (Len(argv) >= 2 /\ ~InputExists) =>
        /\ FS = start
        /\ calls = <<>>
        /\ pc \in {"Start", "ValidatingInput", "InputMissing"}
        /\ exitCode \in {-1, 1}
        /\ pc = "InputMissing" => exitCode = 1

\* C3 witness: the process has exited on a missing input, with no output
\* directory and with an old iconset still in place.
C3_Witness ==
    /\ pc = "InputMissing"
    /\ exitCode = 1
    /\ ~outDirExists
    /\ wdExists
    /\ wdFiles # {}

\* C4: the exit code is 0 exactly when an argument was given, the input
\* existed, all ten sips invocations returned zero and iconutil returned
\* zero; otherwise it is 1.
C4_ExitCode ==
    exitCode # -1 =>
        /\ exitCode \in {0, 1}
        /\ exitCode = 0 <=>
              (Len(argv) >= 2 /\ InputExists /\ AllTenZero /\ CompileZero)

\* C4 witness: a process that exited 1 after iconutil failed, all ten
\* renditions having succeeded.
C4_Witness == exitCode = 1 /\ AllTenZero /\ Len(calls) = 11 /\ calls[11].rc # 0

\* C5: sips is invoked at most once per entry, in table order, iconutil at
\* most once and only after ten sips invocations that returned zero, and
\* exactly once when all ten returned zero; nothing is invoked after a
\* failure.
C5_InvocationOrder ==
    /\ Len(calls) <= 11
    /\ \A j \in 1..Len(calls) :
          /\ j <= 10 => (IsSips(j) /\ calls[j].k = j /\ calls[j].size = Dims[j]
                         /\ calls[j].out = Names[j])
          /\ j = 11 => IsIconutil(j)
          /\ j > 1 => calls[j - 1].rc = 0
    /\ Returned => ((\E j \in 1..Len(calls) : IsIconutil(j)) <=> AllTenZero)

\* C5 witness: generate_icon has returned after ten sips invocations and one
\* iconutil invocation.
C5_Witness == Returned /\ Len(calls) = 11 /\ IsIconutil(11) /\ IsSips(10)

\* C6: two runs in a row with the same existing input, both succeeding,
\* leave the same file system: the same .icns content, no iconset, nothing
\* else.
C6_Idempotent ==
    (/\ run > 1
     /\ pc = "CompileSucceeded"
     /\ prev.pc = "CompileSucceeded"
     /\ prev.argv = argv) =>
        /\ FS = prev.fs
        /\ icns = prev.fs.icns
        /\ icns # <<>>
        /\ ~wdExists
        /\ wdFiles = {}

\* C6 witness: the second of two successful runs on the same input has
\* exited.
C6_Witness ==
    /\ run = 2
    /\ pc = "CompileSucceeded"
    /\ prev.pc = "CompileSucceeded"
    /\ prev.argv = argv
    /\ exitCode = 0

\* C7: when iconutil is invoked the iconset holds exactly the ten
\* renditions, each under its entry's name and at its entry's dimension,
\* whatever the iconset held before the run.
C7_FreshIconsetAtCompile ==
    \A j \in 1..Len(calls) :
        IsIconutil(j) =>
            /\ calls[j].wd
            /\ calls[j].files = {<<Names[k], input_image, Dims[k]>> : k \in 1..10}
            /\ Cardinality(calls[j].files) = 10

\* C7 witness: iconutil has been invoked in a run that started with an old
\* iconset holding a stale rendition and a foreign file.
C7_Witness ==
    /\ Len(calls) = 11
    /\ IsIconutil(11)
    /\ start.wd
    /\ Cardinality(start.files) >= 2

\* How far the run has come.
Progress ==
    CASE pc = "Start" -> 0
      [] pc = "ValidatingInput" -> 1
      [] pc = "MkOutputDir" -> 2
      [] pc = "RecreateIconset" -> 3
      [] pc = "Rendering" -> 2 + 2 * i
      [] pc = "RenderCheck" -> 3 + 2 * i
      [] pc = "Compiling" -> 30
      [] pc = "CleanUp" -> 31
      [] OTHER -> 40

\* A run only moves forward, and a terminal state is never left.
ForwardOnly ==
    [][/\ pc' # pc => Progress' > Progress
       /\ (Returned \/ Refused) => pc' = pc]_vars

\* C8 as stated: a run only moves forward and every run ends in RenderFailed,
\* CompileFailed or CompileSucceeded and stays there.
C8_EveryRunReturns == ForwardOnly /\ <>[]Returned

\* C8 as amended: a run only moves forward; every run stops in exactly one
\* terminal state and stays there; a run whose argument and input are
\* present stops in RenderFailed, CompileFailed or CompileSucceeded, any
\* other run in UsageError or InputMissing.
C8_EveryRunStops ==
    /\ ForwardOnly
    /\ <>[](Returned \/ Refused)
    /\ (pc = "MkOutputDir") ~> Returned
    /\ [](Refused => (Len(argv) < 2 \/ ~InputExists))

\* C8 witness: a run that went through all phases and has exited 0.
C8_Witness == pc = "CompileSucceeded" /\ exitCode = 0 /\ Progress = 40

\* C9: the iconset exists whenever sips or iconutil is invoked; it is empty
\* at the first invocation, and from the first rendition until the failing
\* sips or iconutil has returned it is not removed.
C9_IconsetExistsAtEveryCall ==
    /\ \A j \in 1..Len(calls) : calls[j].wd
    /\ Len(calls) >= 1 => calls[1].files = {}
    /\ pc \in {"Rendering", "RenderCheck", "Compiling", "CleanUp"} => wdExists

\* C9 witness: iconutil has returned, the iconset still exists, and the run
\* started without one.
C9_Witness == pc = "CleanUp" /\ wdExists /\ ~start.wd /\ Len(calls) = 11

\* C10: the output directory is created before the iconset is touched and
\* before any rendition, so it exists whenever generate_icon has returned,
\* also after a failure that wrote no .icns file.
C10_OutputDirCreatedFirst ==
    /\ (wdExists # start.wd \/ wdFiles # start.files \/ calls # <<>>)
          => outDirExists
    /\ pc \in {"RecreateIconset", "Rendering", "RenderCheck", "Compiling",
               "CleanUp"} => outDirExists
    /\ Returned => outDirExists

\* C10 witness: a rendition failed in a run that started without the output
\* directory; the directory now exists and holds no .icns file.
C10_Witness ==
    /\ pc = "RenderFailed"
    /\ ~start.outDir
    /\ outDirExists
    /\ icns = <<>>

====
